---- MODULE Spec2Model ----
(***************************************************************************)
(* A model of bnd-socket (src/src/bond_tcp.rs): the bonding handshake of   *)
(* BondTcpListener::accept and BondTcpStream::connect, and the framed      *)
(* read/write of BondTcpStream over its member flows.                      *)
(*                                                                         *)
(* Two state machines share the module.  SpecHandshake runs clients        *)
(* against one listener; SpecData runs the two endpoints of one            *)
(* established bond.  Each leaves the other's variables unchanged.         *)
(***************************************************************************)
EXTENDS Integers, Sequences, FiniteSets, TLC

(***************************************************************************)
(* Bounds of the model.                                                    *)
(***************************************************************************)
\* the listener's stream_num is drawn from 1..MaxN
MaxN == 3
\* number of clients that call BondTcpStream::connect
NumClients == 2
\* handshake i/o errors, short token reads and colliding tokens in one run
MaxHsFaults == 1

Min(a, b) == IF a < b THEN a ELSE b

(***************************************************************************)
(* UUIDs.  A Uuid is its 16-byte array (uuid::Uuid wraps [u8; 16]).        *)
(* to_bytes_le / from_bytes_le swap the bytes of the first three fields.   *)
(***************************************************************************)
UuidLen == 16

\* the byte order of the "le" encoding, 1-based: fields d1 (4 bytes), d2 and
\* d3 (2 bytes each) are reversed, d4 (8 bytes) is kept
LePerm == <<4, 3, 2, 1, 6, 5, 8, 7, 9, 10, 11, 12, 13, 14, 15, 16>>

\* Uuid::to_bytes_le
to_bytes_le(u) == [i \in 1..UuidLen |-> u[LePerm[i]]]

\* Uuid::from_bytes_le
from_bytes_le(b) == [i \in 1..UuidLen |-> b[LePerm[i]]]

\* the value of draw number k of Uuid::new_v4: no two draws give the same
new_v4(k) ==
    [i \in 1..UuidLen |-> IF i = 1 THEN k % 256
                          ELSE IF i = 2 THEN (k \div 256) % 256
                          ELSE (7 * i + k) % 256]

\* u8::to_le_bytes / u8::from_le_bytes
u8_to_le_bytes(n) == <<n % 256>>
u8_from_le_bytes(b) == b[1]

\* a read into a zeroed buffer of len bytes from the bytes available
ReadInto(avail, len) == [i \in 1..len |-> IF i <= Len(avail) THEN avail[i] ELSE 0]

VARIABLES
    \* ---- handshake: listener ----
    stream_num,            \* BondTcpListener.stream_num
    accepted_connections,  \* BondTcpListener.accepted_connections: cid -> flows
    lpc,                   \* where the listener's thread is
    acceptQ,               \* connections established and not yet accepted
    cur,                   \* the flow the accept loop is handling
    bonded,                \* the values accept has returned, in order
    arrivals,              \* per client, its flows in the order the listener accepted them
    errs,                  \* the Err returns of accept, in order
    truncated,             \* flows whose token read returned fewer than 16 bytes
    \* ---- handshake: clients ----
    cpc,                   \* where each client's connect is
    ns,                    \* connect's ns, per client
    cid_buf,               \* connect's cid_buf, per client
    streams,               \* connect's streams, per client
    \* ---- handshake: the flows and the uuid source ----
    c2s,                   \* bytes written by the client, not yet read
    s2c,                   \* bytes written by the listener, not yet read
    \* ---- data plane: the two BondTcpStream of one bond ----
    width,                 \* streams.len(), the same at both endpoints
    next_stream,           \* BondTcpStream.next_stream, per endpoint
    readable,              \* BondTcpStream.readable, per endpoint
    wire,                  \* wire[e][m]: bytes on member m that e has yet to read
    call,                  \* the read or write call in progress, per endpoint
    result,                \* what the last call returned, per endpoint
    closed,                \* the endpoint dropped its stream (members closed)
    sent,                  \* payloads of the write calls made, concatenated
    rcvd,                  \* buffers the successful reads returned, concatenated
    ncalls,                \* calls made so far, per endpoint
    budget,                \* calls the two endpoints may make in the run
    log,                   \* the calls that returned Ok, in order, per endpoint
    nfaults                \* i/o errors the members have raised so far

hsVars == <<stream_num, accepted_connections, lpc, acceptQ, cur, bonded, arrivals,
            errs, truncated, cpc, ns, cid_buf, streams, c2s, s2c>>

dataVars == <<width, next_stream, readable, wire, call, result, closed,
              sent, rcvd, ncalls, budget, log, nfaults>>

vars == <<hsVars, dataVars>>

Clients == 1..NumClients

\* abnormal handshake events so far
HsFaults ==
    Len(errs) + Cardinality(truncated) + Cardinality({c \in Clients : cpc[c] = "rogue"})

\* a flow is named by the client that opened it and its rank among that
\* client's connect calls
Flows == Clients \X (1..MaxN)
NoFlow == <<0, 0>>

\* the draws of new_v4: connect draws one per client (tid), accept one per
\* flow it finds no session for (cid)
TidDraw(c) == c
CidDraw(f) == NumClients + (f[1] - 1) * MaxN + f[2]

\* ---------------------------------------------------------------------
\* HashMap<Uuid, Vec<TcpStream>> operations
MapRemoveNothing(m, k) == m
MapRemove(m, k) == [x \in (DOMAIN m) \ {k} |-> m[x]]
MapInsertAlone(m, k, v) == [x \in {k} |-> v]
MapInsert(m, k, v) == [x \in (DOMAIN m) \cup {k} |-> IF x = k THEN v ELSE m[x]]

\* accept: `streams.len() + 1 == self.stream_num as usize`
SessionCompleteOffByOne(strs, n) == Len(strs) + 2 = n
SessionComplete(strs, n) == Len(strs) + 1 = n

\* accept: `streams.push(stream)`
PushFront(strs, s) == <<s>> \o strs
Push(strs, s) == Append(strs, s)

\* accept: the key `self.accepted_connections.remove(&cid)` looks up
LookupAnyPending(m, cid) == IF DOMAIN m = {} THEN cid ELSE CHOOSE k \in DOMAIN m : TRUE
LookupKey(m, cid) == cid

\* accept: `stream.read(&mut cid_buf)` on a blocking socket returns once
\* bytes of the flow have arrived
TokenReadAtOnce(avail) == TRUE
TokenArrived(avail) == avail # <<>>

\* accept, None branch: the key of the new session is the `cid` of
\* `let cid = uuid::Uuid::new_v4()`, which shadows the one read from the flow
SessionKeyFromToken(tok, fresh) == tok
SessionKey(tok, fresh) == fresh

\* the sizes the listener's one read of the token may return: the 16 bytes
\* the client wrote, or fewer when only part of them has arrived
TokenReads(avail) ==
    {Min(Len(avail), UuidLen)} \cup
        (IF HsFaults < MaxHsFaults
         THEN {n \in {UuidLen \div 2} : n < Len(avail)} ELSE {})

\* the table accept leaves behind when it returns Err: `remove(&cid)` has
\* taken the session of the flow in hand out only at site "nonblock"
TableClearedOnErr(m, key, site) == [x \in {} |-> <<>>]
TableAfterErr(m, key, site) == IF site = "nonblock" THEN MapRemove(m, key) ELSE m

\* the first flows of the sessions in the table other than key's
PendingFirsts(m, key) == {m[k][1] : k \in (DOMAIN m) \ {key}}

HsInit ==
    /\ stream_num \in 1..MaxN
    /\ accepted_connections = <<>>
    /\ lpc = "accept"
    /\ acceptQ = <<>>
    /\ cur = NoFlow
    /\ bonded = <<>>
    /\ arrivals = [c \in Clients |-> <<>>]
    /\ errs = <<>>
    /\ truncated = {}
    /\ cpc = [c \in Clients |-> "init"]
    /\ ns = [c \in Clients |-> 0]
    /\ cid_buf = [c \in Clients |-> [i \in 1..UuidLen |-> 0]]
    /\ streams = [c \in Clients |-> <<>>]
    /\ c2s = [f \in Flows |-> <<>>]
    /\ s2c = [f \in Flows |-> <<>>]

\* ---- listener ------------------------------------------------------
\* accept() is running (the application calls it again each time it
\* returns): `self.listener.accept()?` returns the oldest connection
TcpAccept ==
    /\ lpc = "accept"
    /\ acceptQ # <<>>
    /\ cur' = Head(acceptQ)
    /\ acceptQ' = Tail(acceptQ)
    /\ lpc' = "token"
    /\ arrivals' = [arrivals EXCEPT ![Head(acceptQ)[1]] = Append(@, Head(acceptQ))]
    /\ UNCHANGED <<stream_num, accepted_connections, bonded, errs, truncated,
                   cpc, ns, cid_buf, streams, c2s, s2c>>
    /\ UNCHANGED dataVars

\* the rest of one iteration of accept's loop: read the token, look the
\* session up, then complete it, extend it or open a new one
HandleFlow ==
    /\ lpc = "token"
    /\ TokenArrived(c2s[cur])
    /\ \E n \in TokenReads(c2s[cur]) :
       LET buf  == ReadInto(SubSeq(c2s[cur], 1, n), UuidLen)
           cid  == from_bytes_le(buf)
           key  == LookupKey(accepted_connections, cid)
           rest == SubSeq(c2s[cur], n + 1, Len(c2s[cur]))
       IN /\ c2s' = [c2s EXCEPT ![cur] = rest]
          /\ truncated' = IF n < UuidLen THEN truncated \cup {cur} ELSE truncated
          /\ IF key \in DOMAIN accepted_connections
             THEN LET strs == accepted_connections[key]
                  IN IF SessionComplete(strs, stream_num)
                     THEN /\ accepted_connections' = MapRemove(accepted_connections, key)
                          /\ bonded' = Append(bonded,
                                 [streams |-> Push(strs, cur), next_stream |-> 0,
                                  readable |-> 0, addr |-> cur])
                          /\ lpc' = "accept"
                          /\ UNCHANGED s2c
                     ELSE /\ accepted_connections' =
                                 MapInsert(accepted_connections, key, Push(strs, cur))
                          /\ lpc' = "accept"
                          /\ UNCHANGED <<bonded, s2c>>
             ELSE LET fresh == new_v4(CidDraw(cur))
                  IN /\ s2c' = [s2c EXCEPT ![cur] =
                                   @ \o u8_to_le_bytes(stream_num) \o to_bytes_le(fresh)]
                     /\ accepted_connections' =
                            MapInsert(accepted_connections, SessionKey(cid, fresh), <<cur>>)
                     /\ lpc' = "accept"
                     /\ UNCHANGED bonded
    /\ cur' = NoFlow
    /\ UNCHANGED <<stream_num, acceptQ, arrivals, errs, cpc, ns, cid_buf, streams>>
    /\ UNCHANGED dataVars

\* accept returns Err from inside an iteration, the flow in hand is dropped:
\* `stream.read(&mut cid_buf)?` (site "read"), `stream.write_all(..)?` of the
\* None branch (site "write"), `s.set_nonblocking(true)?` of a completed
\* session (site "nonblock").  What the dropped flow still held is lost.
\* The application calls accept again.
HandleFlowErr(site) ==
    /\ lpc = "token"
    /\ HsFaults < MaxHsFaults
    /\ LET cid  == from_bytes_le(ReadInto(c2s[cur], UuidLen))
           key  == LookupKey(accepted_connections, cid)
           hit  == key \in DOMAIN accepted_connections
       IN /\ site = "write" => (c2s[cur] # <<>> /\ ~hit)
          /\ site = "nonblock" =>
                (c2s[cur] # <<>> /\ hit
                   /\ SessionComplete(accepted_connections[key], stream_num))
          /\ accepted_connections' = TableAfterErr(accepted_connections, key, site)
          /\ c2s' = [c2s EXCEPT ![cur] = <<>>]
          /\ errs' = Append(errs, [flow |-> cur,
                                   pending |-> PendingFirsts(accepted_connections, key)])
    /\ lpc' = "accept"
    /\ cur' = NoFlow
    /\ UNCHANGED <<stream_num, acceptQ, bonded, arrivals, truncated,
                   cpc, ns, cid_buf, streams, s2c>>
    /\ UNCHANGED dataVars

\* ---- client: BondTcpStream::connect ----------------------------------
\* connect the first flow and write the challenge token
ConnectFirst(c) ==
    /\ cpc[c] = "init"
    /\ LET tid == new_v4(TidDraw(c))
           f   == <<c, 1>>
       IN /\ acceptQ' = Append(acceptQ, f)
          /\ c2s' = [c2s EXCEPT ![f] = @ \o to_bytes_le(tid)]
    /\ cpc' = [cpc EXCEPT ![c] = "challenge"]
    /\ UNCHANGED <<stream_num, accepted_connections, lpc, cur, bonded, arrivals,
                   errs, truncated,
                   ns, cid_buf, streams, s2c>>
    /\ UNCHANGED dataVars

\* read one byte (the bond width) and then exactly 16 bytes (the CID)
ReadResponse(c) ==
    /\ cpc[c] = "challenge"
    /\ LET f == <<c, 1>>
       IN /\ Len(s2c[f]) >= 1 + UuidLen
          /\ ns' = [ns EXCEPT ![c] = u8_from_le_bytes(SubSeq(s2c[f], 1, 1))]
          /\ cid_buf' = [cid_buf EXCEPT ![c] = SubSeq(s2c[f], 2, 1 + UuidLen)]
          /\ s2c' = [s2c EXCEPT ![f] = SubSeq(@, 2 + UuidLen, Len(@))]
          /\ streams' = [streams EXCEPT ![c] = <<f>>]
          /\ cpc' = [cpc EXCEPT ![c] = IF 1 < ns'[c] THEN "open" ELSE "done"]
    /\ UNCHANGED <<stream_num, accepted_connections, lpc, acceptQ, cur, bonded,
                   errs, truncated,
                   arrivals, c2s>>
    /\ UNCHANGED dataVars

\* one iteration of `for _ in 1..ns`: connect another flow, write cid_buf;
\* after the last one the members are registered and connect returns
ConnectNext(c) ==
    /\ cpc[c] = "open"
    /\ Len(streams[c]) < ns[c]
    /\ LET f == <<c, Len(streams[c]) + 1>>
       IN /\ acceptQ' = Append(acceptQ, f)
          /\ c2s' = [c2s EXCEPT ![f] = @ \o cid_buf[c]]
          /\ streams' = [streams EXCEPT ![c] = Append(@, f)]
          /\ cpc' = [cpc EXCEPT ![c] = IF Len(streams'[c]) < ns[c] THEN "open" ELSE "done"]
    /\ UNCHANGED <<stream_num, accepted_connections, lpc, cur, bonded, arrivals,
                   errs, truncated,
                   ns, cid_buf, s2c>>
    /\ UNCHANGED dataVars

\* the listener dropped the first flow before answering: `stream.read` of
\* the width returns 0 bytes or an error, read_exact fails, connect
\* returns Err
ConnectFail(c) ==
    /\ cpc[c] = "challenge"
    /\ Len(s2c[<<c, 1>>]) < 1 + UuidLen
    /\ \E j \in 1..Len(errs) : errs[j].flow = <<c, 1>>
    /\ cpc' = [cpc EXCEPT ![c] = "failed"]
    /\ UNCHANGED <<stream_num, accepted_connections, lpc, acceptQ, cur, bonded,
                   arrivals, errs, truncated, ns, cid_buf, streams, c2s, s2c>>
    /\ UNCHANGED dataVars

\* ---- peers of the listener, step by step --------------------------------
\* connect up to `TcpStream::connect(..)?`: the connection is established and
\* waits to be accepted, nothing has been written on it yet
TcpConnect(c) ==
    /\ cpc[c] = "init"
    /\ acceptQ' = Append(acceptQ, <<c, 1>>)
    /\ cpc' = [cpc EXCEPT ![c] = "connected"]
    /\ UNCHANGED <<stream_num, accepted_connections, lpc, cur, bonded, arrivals,
                   errs, truncated, ns, cid_buf, streams, c2s, s2c>>
    /\ UNCHANGED dataVars

\* `stream.write(&tid.to_bytes_le())?` on the connection made before
SendChallenge(c) ==
    /\ cpc[c] = "connected"
    /\ c2s' = [c2s EXCEPT ![<<c, 1>>] = @ \o to_bytes_le(new_v4(TidDraw(c)))]
    /\ cpc' = [cpc EXCEPT ![c] = "challenge"]
    /\ UNCHANGED <<stream_num, accepted_connections, lpc, acceptQ, cur, bonded, arrivals,
                   errs, truncated, ns, cid_buf, streams, s2c>>
    /\ UNCHANGED dataVars

\* a peer connects and writes as its token the CID of a session that is
\* waiting in the listener's table (its new_v4 draw collided, or it learnt
\* the CID): nothing in accept tells such a token from a CID it minted.
\* The peer then waits for a response.
ConnectRogue(c) ==
    /\ cpc[c] = "init"
    /\ HsFaults < MaxHsFaults
    /\ \E k \in DOMAIN accepted_connections :
          c2s' = [c2s EXCEPT ![<<c, 1>>] = @ \o to_bytes_le(k)]
    /\ acceptQ' = Append(acceptQ, <<c, 1>>)
    /\ cpc' = [cpc EXCEPT ![c] = "rogue"]
    /\ UNCHANGED <<stream_num, accepted_connections, lpc, cur, bonded, arrivals,
                   errs, truncated, ns, cid_buf, streams, s2c>>
    /\ UNCHANGED dataVars

HsNext ==
    \/ TcpAccept
    \/ HandleFlow
    \/ \E site \in {"read", "write", "nonblock"} : HandleFlowErr(site)
    \/ \E c \in Clients : ConnectFail(c)
    \/ \E c \in Clients : ConnectFirst(c)
    \/ \E c \in Clients : ReadResponse(c)
    \/ \E c \in Clients : ConnectNext(c)


(***************************************************************************)
(* Byte strings.  A byte string is kept run-length encoded: a sequence of  *)
(* runs [b |-> byte, n |-> count] with n >= 1 and no two adjacent runs of  *)
(* the same byte, so that equal byte strings are equal values.             *)
(***************************************************************************)
BRep(b, n) == IF n = 0 THEN <<>> ELSE <<[b |-> b, n |-> n]>>

RECURSIVE BLen(_)
BLen(s) == IF s = <<>> THEN 0 ELSE s[1].n + BLen(Tail(s))

BCat(s, t) ==
    IF s = <<>> THEN t
    ELSE IF t = <<>> THEN s
    ELSE IF s[Len(s)].b = t[1].b
         THEN SubSeq(s, 1, Len(s) - 1)
                  \o <<[b |-> t[1].b, n |-> s[Len(s)].n + t[1].n]>> \o Tail(t)
         ELSE s \o t

\* the first k bytes of s (all of s when it is shorter)
RECURSIVE BTake(_, _)
BTake(s, k) ==
    IF k = 0 \/ s = <<>> THEN <<>>
    ELSE IF s[1].n >= k THEN <<[b |-> s[1].b, n |-> k]>>
    ELSE <<s[1]>> \o BTake(Tail(s), k - s[1].n)

\* s without its first k bytes
RECURSIVE BDrop(_, _)
BDrop(s, k) ==
    IF k = 0 \/ s = <<>> THEN s
    ELSE IF s[1].n > k THEN <<[b |-> s[1].b, n |-> s[1].n - k]>> \o Tail(s)
    ELSE BDrop(Tail(s), k - s[1].n)

\* &s[lo..hi]
BSlice(s, lo, hi) == BTake(BDrop(s, lo), hi - lo)

\* the i-th byte of s, counted from 1
RECURSIVE BByte(_, _)
BByte(s, i) == IF i <= s[1].n THEN s[1].b ELSE BByte(Tail(s), i - s[1].n)

\* the byte string of a plain sequence of bytes
RECURSIVE BOfSeq(_)
BOfSeq(q) == IF q = <<>> THEN <<>> ELSE BCat(BRep(q[1], 1), BOfSeq(Tail(q)))

BIsPrefix(s, t) == BLen(s) <= BLen(t) /\ BTake(t, BLen(s)) = s

\* (n as u32).to_le_bytes(), for n < 2^31 (write casts lengths below
\* FRAGMENT_SIZE only, which the cast keeps)
u32_to_le_bytes(n) ==
    BOfSeq(<<n % 256, (n \div 256) % 256, (n \div 65536) % 256, (n \div 16777216) % 256>>)

\* u32::from_le_bytes(b) as usize
u32_from_le_bytes(b) ==
    BByte(b, 1) + 256 * BByte(b, 2) + 65536 * BByte(b, 3) + 16777216 * BByte(b, 4)

(***************************************************************************)
(* The data plane: BondTcpStream::read and ::write on an established bond. *)
(***************************************************************************)
FRAGMENT_SIZE == 8192

\* size_of the frame length prefix (`[0u8; 4]`, u32)
HeaderLen == 4

\* write calls carry 1..MaxSmall bytes or a length next to FRAGMENT_SIZE
MaxSmall == 2
\* read calls pass a buffer of 1..MaxBuf bytes or one next to FRAGMENT_SIZE
MaxBuf == 3
\* calls (read or write) the two endpoints make in one run
MaxCalls == 3
\* calls in a run of SpecFrames
MaxFrameCalls == 4
\* a member write is short only within the first MaxShort bytes of a buffer
MaxShort == 1
\* i/o errors other than would-block the members raise in one run
MaxFaults == 1

Ends == {"client", "server"}
Peer(e) == IF e = "client" THEN "server" ELSE "client"
Members0 == 0..(width - 1)

WriteLens == (1..MaxSmall) \cup {FRAGMENT_SIZE - 1, FRAGMENT_SIZE, FRAGMENT_SIZE + 1}
ReadLens == (1..MaxBuf) \cup {FRAGMENT_SIZE - 1, FRAGMENT_SIZE, FRAGMENT_SIZE + 1}

\* the buffer of the k-th call at endpoint e, B >= 1 bytes long: a first byte
\* that names the call, then a filler that names the endpoint
Payload(e, k, B) ==
    IF e = "client" THEN BCat(BRep(16 + k, 1), BRep(101, B - 1))
                    ELSE BCat(BRep(32 + k, 1), BRep(102, B - 1))

NoCall ==
    [op |-> "none", buf |-> <<>>, segs |-> <<>>, index |-> 0, looping |-> FALSE,
     out |-> <<>>, blen |-> 0, n |-> 0, data |-> <<>>, pc |-> "none", adv |-> FALSE,
     want |-> 0, have |-> 0, first |-> FALSE, lenbs |-> <<>>,
     ioerr |-> FALSE, eof |-> FALSE, m0 |-> 0]

NoResult ==
    [op |-> "none", status |-> "none", ret |-> 0, buf |-> <<>>, out |-> <<>>,
     member |-> 0, blen |-> 0, data |-> <<>>, ioerr |-> FALSE, eof |-> FALSE]

\* ---- write -----------------------------------------------------------
\* the slices the large-payload loop of write hands to write_loop:
\*   while sup < buf.len() { inf = k*F; k += 1; sup = min(k*F, len); ... }
RECURSIVE WriteChunks(_, _, _)
WriteChunks(buf, k, sup) ==
    IF sup < BLen(buf)
    THEN LET inf  == k * FRAGMENT_SIZE
             k1   == k + 1
             sup1 == Min(k1 * FRAGMENT_SIZE, BLen(buf))
         IN <<[hdr |-> FALSE, bytes |-> BSlice(buf, inf, sup1)]>>
                \o WriteChunks(buf, k1, sup1)
    ELSE <<>>

\* the buffers write passes to write_loop, in order
WriteSegsFramed(buf) ==
    <<[hdr |-> TRUE, bytes |-> u32_to_le_bytes(BLen(buf))],
      [hdr |-> FALSE, bytes |-> buf]>>
WriteSegs(buf) ==
    IF BLen(buf) < FRAGMENT_SIZE
    THEN <<[hdr |-> TRUE, bytes |-> u32_to_le_bytes(BLen(buf))],
           [hdr |-> FALSE, bytes |-> buf]>>
    ELSE WriteChunks(buf, 0, FRAGMENT_SIZE)

\* `(self.next_stream + 1) % self.streams.len()`
NoAdvance(i) == i % width
Advance(i) == (i + 1) % width

\* the byte counts a short member write may report, index bytes of the
\* buffer being written and rem bytes being left
ShortCounts(index, rem) == {k \in 1..MaxShort : index + k <= MaxShort /\ k < rem}

\* the caller of a poisoned or closed stream makes no further call
CanCall(e) ==
    /\ call[e].op = "none"
    /\ ~closed[e]
    /\ result[e].status \in {"none", "ok"}
    /\ ncalls["client"] + ncalls["server"] < budget

\* what a write call that has run to its end leaves behind
WriteOk(e, c) ==
    /\ next_stream' = [next_stream EXCEPT ![e] = Advance(@)]
    /\ result' = [result EXCEPT ![e] =
           [NoResult EXCEPT !.op = "write", !.status = "ok", !.ret = BLen(c.buf),
                            !.buf = c.buf, !.out = c.out, !.member = next_stream[e],
                            !.ioerr = c.ioerr]]
    /\ log' = [log EXCEPT ![e] =
           Append(@, [op |-> "write", m |-> c.m0, len |-> BLen(c.buf)])]
    /\ call' = [call EXCEPT ![e] = NoCall]

\* a call returns Err(kind) to its caller
Fail(e, c, kind) ==
    /\ result' = [result EXCEPT ![e] =
           [NoResult EXCEPT !.op = c.op, !.status = kind, !.buf = c.buf,
                            !.out = c.out, !.member = next_stream[e],
                            !.blen = c.blen, !.data = c.data,
                            !.ioerr = c.ioerr, !.eof = c.eof]]
    /\ call' = [call EXCEPT ![e] = NoCall]
    /\ UNCHANGED log

\* k more bytes of the buffer write_loop holds go onto member next_stream
Emit(e, c, k) ==
    LET seg   == Head(c.segs)
        bytes == BSlice(seg.bytes, c.index, c.index + k)
    IN wire' = [wire EXCEPT ![Peer(e)][next_stream[e]] = BCat(@, bytes)]

\* c.out with k more bytes of the current write_loop buffer
OutPlus(e, c, k) ==
    LET seg   == Head(c.segs)
        bytes == BSlice(seg.bytes, c.index, c.index + k)
    IN IF c.index = 0 /\ ~c.looping
       THEN Append(c.out, [m |-> next_stream[e], hdr |-> seg.hdr, bytes |-> bytes])
       ELSE [c.out EXCEPT ![Len(c.out)].bytes = BCat(@, bytes)]

\* the application calls write(buf) with a buffer of B bytes
WriteCall(e, B) ==
    /\ CanCall(e)
    /\ LET buf == Payload(e, ncalls[e] + 1, B)
           c   == [NoCall EXCEPT !.op = "write", !.buf = buf, !.segs = WriteSegs(buf),
                                 !.m0 = next_stream[e]]
       IN /\ sent' = [sent EXCEPT ![e] = BCat(@, buf)]
          /\ ncalls' = [ncalls EXCEPT ![e] = @ + 1]
          /\ IF c.segs = <<>>
             THEN WriteOk(e, c)
             ELSE /\ call' = [call EXCEPT ![e] = c]
                  /\ UNCHANGED <<next_stream, result, log>>
    /\ UNCHANGED <<width, budget, readable, wire, closed, rcvd, nfaults>>
    /\ UNCHANGED hsVars

\* write_loop's first member write takes the whole buffer: write_loop returns
WriteFirstFull(e) ==
    /\ call[e].op = "write" /\ ~call[e].looping
    /\ LET c   == call[e]
           k   == BLen(Head(c.segs).bytes)
           c1  == [c EXCEPT !.out = OutPlus(e, c, k), !.segs = Tail(c.segs)]
       IN /\ Emit(e, c, k)
          /\ IF c1.segs = <<>>
             THEN WriteOk(e, c1)
             ELSE /\ call' = [call EXCEPT ![e] = c1]
                  /\ UNCHANGED <<next_stream, result, log>>
    /\ UNCHANGED <<width, budget, readable, closed, sent, rcvd, ncalls, nfaults>>
    /\ UNCHANGED hsVars

\* write_loop's first member write is short: write_loop enters its loop
WriteFirstShort(e, k) ==
    /\ call[e].op = "write" /\ ~call[e].looping
    /\ k \in ShortCounts(0, BLen(Head(call[e].segs).bytes))
    /\ LET c == call[e]
       IN /\ Emit(e, c, k)
          /\ call' = [call EXCEPT ![e] =
                 [c EXCEPT !.out = OutPlus(e, c, k), !.index = k, !.looping = TRUE]]
    /\ UNCHANGED <<width, budget, next_stream, readable, result, closed, sent, rcvd, ncalls,
                   log, nfaults>>
    /\ UNCHANGED hsVars

\* write_loop's first member write returns Err(WouldBlock): the member's
\* send buffer is full, which takes bytes the peer has not read yet
WriteFirstWouldBlock(e) ==
    /\ call[e].op = "write" /\ ~call[e].looping
    /\ wire[Peer(e)][next_stream[e]] # <<>>
    /\ Fail(e, call[e], "wouldblock")
    /\ UNCHANGED <<width, budget, next_stream, readable, wire, closed, sent, rcvd, ncalls, nfaults>>
    /\ UNCHANGED hsVars

\* a member write returns another error, first or in the loop: `?` returns it
WriteErr(e) ==
    /\ call[e].op = "write"
    /\ nfaults < MaxFaults
    /\ nfaults' = nfaults + 1
    /\ Fail(e, [call[e] EXCEPT !.ioerr = TRUE], "error")
    /\ UNCHANGED <<width, budget, next_stream, readable, wire, closed, sent, rcvd, ncalls>>
    /\ UNCHANGED hsVars

\* one turn of write_loop's loop: wait for writable, write from index on.
\* `break` leaves the `for`, never the `loop`.
WriteRetry(e) ==
    /\ call[e].op = "write" /\ call[e].looping
    /\ LET c   == call[e]
           rem == BLen(Head(c.segs).bytes) - c.index
       IN \E k \in {rem} \cup ShortCounts(c.index, rem) :
             /\ Emit(e, c, k)
             /\ call' = [call EXCEPT ![e] =
                    [c EXCEPT !.out = OutPlus(e, c, k), !.index = c.index + k]]
    /\ UNCHANGED <<width, budget, next_stream, readable, result, closed, sent, rcvd, ncalls,
                   log, nfaults>>
    /\ UNCHANGED hsVars

\* ---- read ------------------------------------------------------------
\* read_loop is entered for a buffer of `want` bytes
StartReadLoop(c, pc, want) ==
    [c EXCEPT !.pc = pc, !.want = want, !.have = 0, !.first = TRUE,
              !.lenbs = IF pc = "hdr" THEN <<>> ELSE @]

\* the test of `while n < buf.len()` in read and what follows it: another
\* frame header, or the last advance of next_stream and the return
ReadLoopTop(c, nsv, rdv) ==
    IF c.n < c.blen
    THEN [call |-> StartReadLoop(c, "hdr", HeaderLen), next_stream |-> nsv,
          readable |-> rdv, done |-> FALSE]
    ELSE [call |-> c, next_stream |-> Advance(nsv), readable |-> rdv, done |-> TRUE]

\* read just after the frame length was read: both branches read
\* `buf[n..buf_len]`, the first keeps the residue of the frame in readable
AfterHeader(c, nsv, rdv) ==
    LET len == u32_from_le_bytes(c.lenbs)
    IN IF len > c.blen - c.n
       THEN [call |-> [StartReadLoop(c, "body", c.blen - c.n) EXCEPT !.adv = FALSE],
             next_stream |-> nsv, readable |-> len - (c.blen - c.n), done |-> FALSE]
       ELSE [call |-> [StartReadLoop(c, "body", c.blen - c.n) EXCEPT !.adv = TRUE],
             next_stream |-> nsv, readable |-> 0, done |-> FALSE]

\* read_readable after its read_loop returned n = want
AfterReadable(c, nsv, rdv) ==
    IF c.want = rdv
    THEN ReadLoopTop([c EXCEPT !.n = c.want], Advance(nsv), 0)
    ELSE ReadLoopTop([c EXCEPT !.n = c.want], nsv, rdv - c.want)

\* read after the read_loop of a frame's payload returned
AfterBody(c, nsv, rdv) ==
    ReadLoopTop([c EXCEPT !.n = c.n + c.want], IF c.adv THEN Advance(nsv) ELSE nsv, rdv)

\* where read goes on once the read_loop in progress has filled its buffer
ReadCont(c, nsv, rdv) ==
    IF c.pc = "readable" THEN AfterReadable(c, nsv, rdv)
    ELSE IF c.pc = "hdr" THEN AfterHeader(c, nsv, rdv)
    ELSE AfterBody(c, nsv, rdv)

\* read_loop took k bytes from member next_stream (k = 0: none came)
Took(e, c, k) ==
    LET m     == next_stream[e]
        bytes == BTake(wire[e][m], k)
        c1    == [c EXCEPT !.have = c.have + k, !.first = FALSE,
                           !.lenbs = IF c.pc = "hdr" THEN BCat(@, bytes) ELSE @,
                           !.data = IF c.pc = "hdr" THEN @ ELSE BCat(@, bytes)]
        nx    == IF c1.have < c1.want
                 THEN [call |-> c1, next_stream |-> next_stream[e],
                       readable |-> readable[e], done |-> FALSE]
                 ELSE ReadCont(c1, next_stream[e], readable[e])
    IN /\ wire' = [wire EXCEPT ![e][m] = BDrop(@, k)]
       /\ next_stream' = [next_stream EXCEPT ![e] = nx.next_stream]
       /\ readable' = [readable EXCEPT ![e] = nx.readable]
       /\ IF nx.done
          THEN /\ call' = [call EXCEPT ![e] = NoCall]
               /\ result' = [result EXCEPT ![e] =
                      [NoResult EXCEPT !.op = "read", !.status = "ok",
                                       !.ret = nx.call.blen, !.blen = nx.call.blen,
                                       !.data = nx.call.data,
                                       !.ioerr = nx.call.ioerr, !.eof = nx.call.eof]]
               /\ rcvd' = [rcvd EXCEPT ![e] = BCat(@, nx.call.data)]
               /\ log' = [log EXCEPT ![e] =
                      Append(@, [op |-> "read", m |-> nx.call.m0, len |-> nx.call.blen])]
          ELSE /\ call' = [call EXCEPT ![e] = nx.call]
               /\ UNCHANGED <<result, rcvd, log>>

\* the application calls read(buf) with a buffer of blen bytes: read_readable
\* runs read_loop for the residue, or the while loop reads a frame length
ReadCall(e, blen) ==
    /\ CanCall(e)
    /\ LET c == [NoCall EXCEPT !.op = "read", !.blen = blen, !.m0 = next_stream[e]]
       IN call' = [call EXCEPT ![e] =
              IF readable[e] > 0
              THEN StartReadLoop(c, "readable", Min(readable[e], blen))
              ELSE StartReadLoop(c, "hdr", HeaderLen)]
    /\ ncalls' = [ncalls EXCEPT ![e] = @ + 1]
    /\ UNCHANGED <<width, budget, next_stream, readable, wire, result, closed, sent, rcvd,
                   log, nfaults>>
    /\ UNCHANGED hsVars

\* read_loop's first member read, no wait before it: the bytes at hand,
\* Err(WouldBlock) when none is (taken as 0), or 0 at end of stream
ReadFirst(e) ==
    /\ call[e].op = "read" /\ call[e].first
    /\ LET c     == call[e]
           avail == BLen(wire[e][next_stream[e]])
       IN Took(e, [c EXCEPT !.eof = @ \/ (avail = 0 /\ closed[Peer(e)])],
               Min(avail, c.want))
    /\ UNCHANGED <<width, budget, closed, sent, ncalls, nfaults>>
    /\ UNCHANGED hsVars

\* read_loop's first member read returns an error other than would-block:
\* `Err(_) => 0`
ReadFirstErr(e) ==
    /\ call[e].op = "read" /\ call[e].first
    /\ nfaults < MaxFaults
    /\ nfaults' = nfaults + 1
    /\ call' = [call EXCEPT ![e] = [@ EXCEPT !.first = FALSE, !.ioerr = TRUE]]
    /\ UNCHANGED <<width, budget, next_stream, readable, wire, result, closed, sent, rcvd,
                   ncalls, log>>
    /\ UNCHANGED hsVars

\* one turn of read_loop's `while n < len`: wait until the member is
\* readable (bytes at hand, or the peer closed), then read
ReadRetry(e) ==
    /\ call[e].op = "read" /\ ~call[e].first
    /\ LET c     == call[e]
           avail == BLen(wire[e][next_stream[e]])
       IN /\ avail > 0 \/ closed[Peer(e)]
          /\ Took(e, [c EXCEPT !.eof = @ \/ avail = 0], Min(avail, c.want - c.have))
    /\ UNCHANGED <<width, budget, closed, sent, ncalls, nfaults>>
    /\ UNCHANGED hsVars

\* a member read inside the loop returns an error: `?` returns it
ReadRetryErr(e) ==
    /\ call[e].op = "read" /\ ~call[e].first
    /\ nfaults < MaxFaults
    /\ nfaults' = nfaults + 1
    /\ Fail(e, [call[e] EXCEPT !.ioerr = TRUE], "error")
    /\ UNCHANGED <<width, budget, next_stream, readable, wire, closed, sent, rcvd, ncalls>>
    /\ UNCHANGED hsVars

\* the owner drops the stream: every member is closed
Close(e) ==
    /\ call[e].op = "none"
    /\ ~closed[e]
    /\ closed' = [closed EXCEPT ![e] = TRUE]
    /\ UNCHANGED <<width, budget, next_stream, readable, wire, call, result, sent, rcvd,
                   ncalls, log, nfaults>>
    /\ UNCHANGED hsVars

\* ---- the two state machines -------------------------------------------
\* the listener and the clients before any connection, and no bond yet
InitHandshake ==
    /\ HsInit
    /\ width = 0
    /\ next_stream = [e \in Ends |-> 0]
    /\ readable = [e \in Ends |-> 0]
    /\ wire = [e \in Ends |-> <<>>]
    /\ call = [e \in Ends |-> NoCall]
    /\ result = [e \in Ends |-> NoResult]
    /\ closed = [e \in Ends |-> FALSE]
    /\ sent = [e \in Ends |-> <<>>]
    /\ rcvd = [e \in Ends |-> <<>>]
    /\ ncalls = [e \in Ends |-> 0]
    /\ budget = 0
    /\ log = [e \in Ends |-> <<>>]
    /\ nfaults = 0

\* a bond as connect and accept return it: `next_stream: 0, readable: 0`,
\* the members in the same order at both endpoints.  accept returns no
\* stream of one member, so the width is at least 2.
InitData ==
    /\ HsInit
    /\ stream_num >= 2
    /\ width = stream_num
    /\ next_stream = [e \in Ends |-> 0]
    /\ readable = [e \in Ends |-> 0]
    /\ wire = [e \in Ends |-> [m \in 0..(width - 1) |-> <<>>]]
    /\ call = [e \in Ends |-> NoCall]
    /\ result = [e \in Ends |-> NoResult]
    /\ closed = [e \in Ends |-> FALSE]
    /\ sent = [e \in Ends |-> <<>>]
    /\ rcvd = [e \in Ends |-> <<>>]
    /\ ncalls = [e \in Ends |-> 0]
    /\ budget = MaxCalls
    /\ log = [e \in Ends |-> <<>>]
    /\ nfaults = 0

\* the same bond, for a run in which one endpoint writes frames and the
\* other reads them, no member failing
InitFrames ==
    /\ HsInit
    /\ stream_num >= 2
    /\ width = stream_num
    /\ next_stream = [e \in Ends |-> 0]
    /\ readable = [e \in Ends |-> 0]
    /\ wire = [e \in Ends |-> [m \in 0..(width - 1) |-> <<>>]]
    /\ call = [e \in Ends |-> NoCall]
    /\ result = [e \in Ends |-> NoResult]
    /\ closed = [e \in Ends |-> FALSE]
    /\ sent = [e \in Ends |-> <<>>]
    /\ rcvd = [e \in Ends |-> <<>>]
    /\ ncalls = [e \in Ends |-> 0]
    /\ budget = MaxFrameCalls
    /\ log = [e \in Ends |-> <<>>]
    /\ nfaults = 0

DataNext ==
    \/ \E e \in Ends, B \in WriteLens : WriteCall(e, B)
    \/ \E e \in Ends : WriteFirstFull(e)
    \/ \E e \in Ends, k \in 1..MaxShort : WriteFirstShort(e, k)
    \/ \E e \in Ends : WriteFirstWouldBlock(e)
    \/ \E e \in Ends : WriteErr(e)
    \/ \E e \in Ends : WriteRetry(e)
    \/ \E e \in Ends, blen \in ReadLens : ReadCall(e, blen)
    \/ \E e \in Ends : ReadFirst(e)
    \/ \E e \in Ends : ReadFirstErr(e)
    \/ \E e \in Ends : ReadRetry(e)
    \/ \E e \in Ends : ReadRetryErr(e)
    \/ \E e \in Ends : Close(e)

\* the client writes frames (fewer than FRAGMENT_SIZE bytes a call, each
\* member write taking its whole buffer) and the server reads them
Writers == {"client"}
Readers == {"server"}

FramesNext ==
    \/ \E e \in Writers, B \in 1..MaxSmall : WriteCall(e, B)
    \/ \E e \in Writers : WriteFirstFull(e)
    \/ \E e \in Readers, blen \in 1..MaxBuf : ReadCall(e, blen)
    \/ \E e \in Readers : ReadFirst(e)
    \/ \E e \in Readers : ReadRetry(e)

\* one endpoint that only writes, the peer reading nothing
WriteNext ==
    \/ \E e \in Writers, B \in WriteLens : WriteCall(e, B)
    \/ \E e \in Writers : WriteFirstFull(e)
    \/ \E e \in Writers, k \in 1..MaxShort : WriteFirstShort(e, k)
    \/ \E e \in Writers : WriteFirstWouldBlock(e)
    \/ \E e \in Writers : WriteErr(e)
    \/ \E e \in Writers : WriteRetry(e)

\* the listener against clients one of whose tokens may equal a pending
\* CID; no i/o error
PeersNext ==
    \/ TcpAccept
    \/ HandleFlow
    \/ \E c \in Clients : ConnectFirst(c)
    \/ \E c \in Clients : ConnectRogue(c)
    \/ \E c \in Clients : ReadResponse(c)
    \/ \E c \in Clients : ConnectNext(c)

\* the listener against clients that may stall between connecting and
\* sending their token; no i/o error
StallNext ==
    \/ TcpAccept
    \/ HandleFlow
    \/ \E c \in Clients : TcpConnect(c)
    \/ \E c \in Clients : SendChallenge(c)
    \/ \E c \in Clients : ReadResponse(c)
    \/ \E c \in Clients : ConnectNext(c)

SpecHandshake == InitHandshake /\ [][HsNext]_vars

SpecPeers == InitHandshake /\ [][PeersNext]_vars

SpecStall == InitHandshake /\ [][StallNext]_vars

SpecData == InitData /\ [][DataNext]_vars

SpecWrite == InitData /\ [][WriteNext]_vars

SpecFrames == InitFrames /\ [][FramesNext]_vars

\* a thread inside read or write keeps running: the member reads and writes
\* that can be made are made.  Calls, closes and i/o errors are up to the
\* application and the network.
FairData ==
    /\ SpecData
    /\ \A e \in Ends : WF_vars(ReadFirst(e)) /\ WF_vars(ReadRetry(e))
    /\ \A e \in Ends : WF_vars(WriteFirstFull(e)) /\ WF_vars(WriteRetry(e))
(***************************************************************************)
(* Handshake: what the claims speak of.                                    *)
(***************************************************************************)
\* the members of the i-th bonded stream accept returned
Members(i) == bonded[i].streams

\* the bonded streams that hold a flow opened by client c
YieldsOf(c) == {i \in 1..Len(bonded) : \E k \in 1..Len(Members(i)) : Members(i)[k][1] = c}

\* position of flow f among the flows of its client in the order the
\* listener accepted them (0: not yet)
ArrivalRank(f) ==
    LET a == arrivals[f[1]]
    IN IF \E k \in 1..Len(a) : a[k] = f THEN CHOOSE k \in 1..Len(a) : a[k] = f ELSE 0

\* the sessions waiting in the table that hold a flow of client c
PendingOf(c) ==
    {k \in DOMAIN accepted_connections :
        \E j \in 1..Len(accepted_connections[k]) : accepted_connections[k][j][1] = c}

\* every client has returned from connect, every flow has been handled, and
\* the listener sits inside accept() waiting for a connection: nothing more
\* can happen
HsSettled ==
    /\ \A c \in Clients : cpc[c] = "done"
    /\ lpc = "accept"
    /\ acceptQ = <<>>

\* C3: every bonded stream accept returns holds exactly stream_num members.
C3_YieldedHasExactlyN ==
    \A i \in 1..Len(bonded) : Len(Members(i)) = stream_num

\* accept returned a stream of three members while another session was
\* waiting in the table with two
C3_Witness ==
    /\ stream_num = 3
    /\ Len(bonded) = 1
    /\ Len(Members(1)) = 3
    /\ \E k \in DOMAIN accepted_connections : Len(accepted_connections[k]) = 2

\* C4 (as claimed): a client whose connect completed gets at most one
\* bonded stream, and has got exactly one once nothing is left to accept.
C4_OneStreamPerConnect ==
    \A c \in Clients :
        cpc[c] = "done" =>
            /\ Cardinality(YieldsOf(c)) <= 1
            /\ HsSettled => Cardinality(YieldsOf(c)) = 1

\* C5 (as claimed): with stream_num = 1, once the client's connect is over
\* and its one flow handled, accept has returned a stream of that member.
C5_WidthOneYields ==
    (stream_num = 1 /\ HsSettled) =>
        \A c \in Clients : \E i \in 1..Len(bonded) : Members(i) = << <<c, 1>> >>

\* C6: the members of one bonded stream were all opened by the same client.
C6_NoMixedClients ==
    \A i \in 1..Len(bonded) :
        \A j, k \in 1..Len(Members(i)) : Members(i)[j][1] = Members(i)[k][1]

\* the sessions of two clients waited in the table together, a follow-on
\* flow of each was matched to its own, and one of them was returned
C6_Witness ==
    /\ stream_num = 3
    /\ Len(bonded) = 1
    /\ \E c \in Clients :
          /\ c # Members(1)[1][1]
          /\ \E k \in PendingOf(c) : accepted_connections[k] = << <<c, 1>>, <<c, 2>> >>
          /\ Len(arrivals[c]) = 2
          /\ arrivals[c][1] = <<c, 1>>

\* C7: member k of a returned stream is the k-th flow its client opened,
\* the members are in arrival order, and the order is the client's own.
C7_MemberOrder ==
    \A i \in 1..Len(bonded) :
        LET c == Members(i)[1][1]
        IN /\ \A k \in 1..Len(Members(i)) : Members(i)[k] = <<c, k>>
           /\ \A j, k \in 1..Len(Members(i)) :
                 j < k => ArrivalRank(Members(i)[j]) < ArrivalRank(Members(i)[k])
           /\ cpc[c] = "done" => streams[c] = Members(i)

\* a stream of three members was returned and its client is done
C7_Witness ==
    /\ stream_num = 3
    /\ \E i \in 1..Len(bonded) :
          /\ Len(Members(i)) = 3
          /\ cpc[Members(i)[1][1]] = "done"
          /\ arrivals[Members(i)[1][1]] = Members(i)
C13_TruncatedTokenDiscarded ==
    \A f \in truncated :
        /\ \A k \in DOMAIN accepted_connections :
              \A j \in 1..Len(accepted_connections[k]) : accepted_connections[k][j] # f
        /\ \A i \in 1..Len(bonded) : \A j \in 1..Len(Members(i)) : Members(i)[j] # f

(***************************************************************************)
(* Data plane: what the claims speak of.                                   *)
(***************************************************************************)
\* the bytes a write call put on the members, frame length prefixes left out
RECURSIVE PayloadOut(_)
PayloadOut(out) ==
    IF out = <<>> THEN <<>>
    ELSE IF out[1].hdr THEN PayloadOut(Tail(out))
    ELSE BCat(out[1].bytes, PayloadOut(Tail(out)))

\* no call at e has returned an error
Healthy(e) == result[e].status \in {"none", "ok"}

\* C1 (as claimed): the buffers the successful reads of an endpoint returned,
\* concatenated, are a prefix of the buffers its peer's write calls were
\* given, concatenated, while no call of the peer has failed.
C1_ReadsArePrefixOfWrites ==
    \A e \in Ends : Healthy(Peer(e)) => BIsPrefix(rcvd[e], sent[Peer(e)])

\* C2 (as claimed): a write that returned Ok returned buf.len() and has put
\* exactly the bytes of buf on the members, length prefixes aside.
C2_WriteEmitsWholeBuffer ==
    \A e \in Ends :
        (result[e].op = "write" /\ result[e].status = "ok") =>
            /\ result[e].ret = BLen(result[e].buf)
            /\ PayloadOut(result[e].out) = result[e].buf

\* C8 (as claimed): a read that has met the end of stream (a member read of
\* zero bytes, no member having raised an error) returns to its caller, with
\* fewer bytes than its buffer holds.
C8_EofReadReturnsShort ==
    \A e \in Ends :
        (call[e].op = "read" /\ call[e].eof /\ ~call[e].ioerr) ~>
            (call[e].op = "none" /\ result[e].op = "read" /\ result[e].eof
               /\ result[e].status = "ok" /\ result[e].ret < result[e].blen)

\* C12 (as claimed): a frame length above FRAGMENT_SIZE ends the read with an
\* error: no read goes on to the payload with such a length, and the residue
\* is never set from one.
C12_OversizeLengthRejected ==
    \A e \in Ends :
        /\ (call[e].op = "read" /\ call[e].pc = "body") =>
               u32_from_le_bytes(call[e].lenbs) <= FRAGMENT_SIZE
        /\ readable[e] <= FRAGMENT_SIZE

\* the last call of e was a write that returned Ok, and e is idle since
WroteOk(e) == call[e].op = "none" /\ result[e].op = "write" /\ result[e].status = "ok"

\* every call of e so far was a write of fewer than FRAGMENT_SIZE bytes
OnlySmallWrites(e) ==
    /\ call[e].op = "none"
    /\ Len(log[e]) = ncalls[e]
    /\ \A j \in 1..Len(log[e]) : log[e][j].op = "write" /\ log[e][j].len < FRAGMENT_SIZE

\* C14: a write of B < FRAGMENT_SIZE bytes at position r has emitted the
\* 4-byte little-endian B and then the B bytes, both on member r and nothing
\* else, and has left next_stream = (r + 1) mod N; after k such writes and
\* no other call next_stream is k mod N.
C14_SmallWriteOneFrame ==
    \A e \in Ends :
        /\ (WroteOk(e) /\ BLen(result[e].buf) < FRAGMENT_SIZE) =>
              LET r == result[e].member
                  B == BLen(result[e].buf)
              IN /\ result[e].out =
                       <<[m |-> r, hdr |-> TRUE, bytes |-> u32_to_le_bytes(B)],
                         [m |-> r, hdr |-> FALSE, bytes |-> result[e].buf]>>
                 /\ next_stream[e] = (r + 1) % width
        /\ OnlySmallWrites(e) => next_stream[e] = Len(log[e]) % width

\* a small write at a position other than 0 returned, the second of two
C14_Witness ==
    \E e \in Ends :
        /\ WroteOk(e) /\ BLen(result[e].buf) < FRAGMENT_SIZE
        /\ OnlySmallWrites(e) /\ Len(log[e]) = 2
        /\ result[e].member = 1
        /\ Len(result[e].out) = 2

\* C15 (as claimed): chunk k of a write of B >= FRAGMENT_SIZE bytes at
\* position r went to member (r + k) mod N.
C15_ChunksRotate ==
    \A e \in Ends :
        (WroteOk(e) /\ BLen(result[e].buf) >= FRAGMENT_SIZE) =>
            \A j \in 1..Len(result[e].out) :
                result[e].out[j].m = (result[e].member + j - 1) % width

\* C16: a write of B >= FRAGMENT_SIZE bytes has emitted no length prefix,
\* its chunks are FRAGMENT_SIZE bytes long except possibly the last, and it
\* has left next_stream = (r + 1) mod N.
C16_LargeWriteUnframed ==
    \A e \in Ends :
        (WroteOk(e) /\ BLen(result[e].buf) >= FRAGMENT_SIZE) =>
            LET out == result[e].out
            IN /\ \A j \in 1..Len(out) :
                     /\ ~out[j].hdr
                     /\ BLen(out[j].bytes) >= 1
                     /\ BLen(out[j].bytes) <= FRAGMENT_SIZE
                     /\ j < Len(out) => BLen(out[j].bytes) = FRAGMENT_SIZE
               /\ next_stream[e] = (result[e].member + 1) % width

\* a write of FRAGMENT_SIZE + 1 bytes returned: two chunks, the last of one
\* byte
C16_Witness ==
    \E e \in Ends :
        /\ WroteOk(e) /\ BLen(result[e].buf) = FRAGMENT_SIZE + 1
        /\ Len(result[e].out) = 2
        /\ BLen(result[e].out[2].bytes) = 1

\* every call of e so far was a read that returned Ok
OnlyReads(e) ==
    /\ call[e].op = "none"
    /\ Len(log[e]) = ncalls[e]
    /\ \A j \in 1..Len(log[e]) : log[e][j].op = "read"

\* C17 (as claimed): when p has made k writes of fewer than FRAGMENT_SIZE
\* bytes and nothing else, and its peer has made k reads and nothing else,
\* the j-th with a buffer of the j-th frame's length, then both next_stream
\* are k mod N and the j-th read began on the member of the j-th write.
C17_LockStep ==
    \A e \in Ends :
        LET p == Peer(e)
            k == Len(log[p])
        IN (/\ OnlySmallWrites(p)
            /\ OnlyReads(e)
            /\ Len(log[e]) = k
            /\ \A j \in 1..k : log[e][j].len = log[p][j].len) =>
               /\ next_stream[p] = k % width
               /\ next_stream[e] = k % width
               /\ \A j \in 1..k : log[e][j].m = log[p][j].m

\* the writes, and the reads, among the calls of e that returned Ok
IsWrite(x) == x.op = "write"
IsRead(x) == x.op = "read"
WritesOf(e) == SelectSeq(log[e], IsWrite)
ReadsOf(e) == SelectSeq(log[e], IsRead)

\* every write x has made or is making is of fewer than FRAGMENT_SIZE bytes
SmallFramesOnly(x) ==
    /\ \A j \in 1..Len(log[x]) : IsWrite(log[x][j]) => log[x][j].len < FRAGMENT_SIZE
    /\ call[x].op = "write" => BLen(call[x].buf) < FRAGMENT_SIZE
    /\ result[x].op = "write" => BLen(result[x].buf) < FRAGMENT_SIZE

\* C18 (as claimed): when every write on the bond is of fewer than
\* FRAGMENT_SIZE bytes (one frame each), the k-th write of e, counting from
\* 0, went to member k mod N whatever reads e made in between, and the k-th
\* read of the peer, made with a buffer of that frame's length, began on
\* member k mod N.
C18_FrameOnMemberKModN ==
    \A e \in Ends :
        LET w == WritesOf(e)
            r == ReadsOf(Peer(e))
        IN (\A x \in Ends : SmallFramesOnly(x)) =>
              /\ \A j \in 1..Len(w) : w[j].m = (j - 1) % width
              /\ (Len(r) <= Len(w) /\ \A j \in 1..Len(r) : r[j].len = w[j].len) =>
                     \A j \in 1..Len(r) : r[j].m = (j - 1) % width

\* C19 (as claimed): the step in which a read returns with readable > 0,
\* part of a frame of the peer being left, leaves next_stream on the member
\* it was reading, the one that carries the rest of the frame.
C19_ResidueKeepsMember ==
    [][\A e \in Ends :
          (SmallFramesOnly(Peer(e)) /\ call[e].op = "read" /\ call'[e].op = "none"
             /\ result'[e].status = "ok" /\ readable'[e] > 0) =>
                next_stream'[e] = next_stream[e]]_vars

\* the payload lengths of the frames the writes in lg put on member m
RECURSIVE FramesOn(_, _)
FramesOn(lg, m) ==
    IF lg = <<>> THEN <<>>
    ELSE (IF IsWrite(Head(lg)) /\ Head(lg).m = m THEN <<Head(lg).len>> ELSE <<>>)
             \o FramesOn(Tail(lg), m)

\* the bytes of a frame sequence, headers included
RECURSIVE FrameBytes(_)
FrameBytes(fr) == IF fr = <<>> THEN 0 ELSE HeaderLen + Head(fr) + FrameBytes(Tail(fr))

\* the bytes among out that went to member m
RECURSIVE OutBytesOn(_, _)
OutBytesOn(out, m) ==
    IF out = <<>> THEN 0
    ELSE (IF Head(out).m = m THEN BLen(Head(out).bytes) ELSE 0) + OutBytesOn(Tail(out), m)

\* the frames the peer of e has put or is putting on member m
InboundFrames(e, m) ==
    LET p == Peer(e)
    IN FramesOn(log[p], m) \o
          (IF call[p].op = "write" /\ call[p].m0 = m THEN <<BLen(call[p].buf)>> ELSE <<>>)

\* the bytes e has taken from member m so far
Consumed(e, m) ==
    LET p == Peer(e)
    IN FrameBytes(FramesOn(log[p], m))
          + (IF call[p].op = "write" THEN OutBytesOn(call[p].out, m) ELSE 0)
          - BLen(wire[e][m])

\* the payload bytes left of the frame in which cons bytes into fr end:
\* 0 at a frame boundary
RECURSIVE Unconsumed(_, _)
Unconsumed(fr, cons) ==
    IF cons = 0 \/ fr = <<>> THEN 0
    ELSE IF cons <= HeaderLen THEN Head(fr)
    ELSE IF cons < HeaderLen + Head(fr) THEN HeaderLen + Head(fr) - cons
    ELSE Unconsumed(Tail(fr), cons - HeaderLen - Head(fr))

\* the same, summed over members 0..m
RECURSIVE UnconsumedUpTo(_, _)
UnconsumedUpTo(e, m) ==
    IF m < 0 THEN 0
    ELSE Unconsumed(InboundFrames(e, m), Consumed(e, m)) + UnconsumedUpTo(e, m - 1)

\* C20 (as claimed): between the read calls of e, its peer writing frames
\* and no call having failed, readable is the number of payload bytes left
\* of the frame the bytes consumed so far end in: 0 at a frame boundary.
C20_ReadableIsFrameResidue ==
    \A e \in Ends :
        (call[e].op = "none" /\ SmallFramesOnly(Peer(e))
           /\ Healthy(e) /\ Healthy(Peer(e))) =>
              readable[e] = UnconsumedUpTo(e, width - 1)

\* C9 (as claimed): no read or write of the bonded stream returns would-block.
C9_NoWouldBlockToCaller ==
    \A e \in Ends : result[e].status # "wouldblock"

\* C10 (as claimed): once a member read or write has returned an error other
\* than would-block, the call is over and has returned an error.
C10_MemberErrorSurfaced ==
    \A e \in Ends :
        /\ call[e].op # "none" => ~call[e].ioerr
        /\ result[e].ioerr => result[e].status = "error"

\* C21 (as claimed): while read takes the payload of a frame whose length L
\* fits what is left of the buffer, the bytes it has taken from the member
\* as that payload never exceed L.
C21_PayloadWithinFrame ==
    [][\A e \in Ends :
          (call[e].op = "read" /\ call[e].pc = "body" /\ call[e].adv
             /\ SmallFramesOnly(Peer(e))) =>
              LET m == next_stream[e]
              IN call[e].have + (BLen(wire[e][m]) - BLen(wire'[e][m]))
                    <= u32_from_le_bytes(call[e].lenbs)]_vars

\* C22 (as claimed): a write_loop that entered its retry loop after a short
\* first write leaves it: the write call it serves returns.
C22_WriteLoopTerminates ==
    \A e \in Ends :
        (call[e].op = "write" /\ call[e].looping) ~> (call[e].op # "write")

(***************************************************************************)
(* The session table and the listener's loop.                              *)
(***************************************************************************)
\* C23 (as claimed): every entry of the session table holds at least one
\* and fewer than stream_num member flows.
C23_EntryBelowWidth ==
    \A k \in DOMAIN accepted_connections :
        /\ 1 <= Len(accepted_connections[k])
        /\ Len(accepted_connections[k]) < stream_num

\* the step is an iteration of accept that handled the flow in hand
\* without an error
Handled == lpc = "token" /\ lpc' = "accept" /\ errs' = errs

\* the token the iteration read from the flow in hand: the bytes that left
\* the flow, in a zeroed 16-byte buffer
TokenRead ==
    LET n == Len(c2s[cur]) - Len(c2s'[cur])
    IN from_bytes_le(ReadInto(SubSeq(c2s[cur], 1, n), UuidLen))

\* C24: when the token read from a flow is no key of the session table,
\* the iteration sends on that flow the byte stream_num and then the 16
\* bytes of a CID that is neither the token nor a key of the table, adds
\* under that CID a session holding that flow alone, and leaves the other
\* sessions and the returned streams as they were.
C24_FreshCidForNewSession ==
    [][(Handled /\ TokenRead \notin DOMAIN accepted_connections) =>
          \E k \in (DOMAIN accepted_connections') \ (DOMAIN accepted_connections) :
              /\ k # TokenRead
              /\ accepted_connections' = MapInsert(accepted_connections, k, <<cur>>)
              /\ s2c'[cur] = s2c[cur] \o <<stream_num>> \o to_bytes_le(k)
              /\ \A f \in Flows \ {cur} : s2c'[f] = s2c[f]
              /\ bonded' = bonded]_vars

\* two sessions are waiting, each opened by the first flow of a client and
\* stored under the CID that client was sent, none under a client's token
C24_Witness ==
    /\ Cardinality(DOMAIN accepted_connections) = 2
    /\ \A c \in Clients :
          /\ cpc[c] \in {"open", "done"}
          /\ from_bytes_le(cid_buf[c]) \in DOMAIN accepted_connections
          /\ accepted_connections[from_bytes_le(cid_buf[c])][1] = <<c, 1>>
          /\ new_v4(TidDraw(c)) \notin DOMAIN accepted_connections

\* C25: a session waiting in the table is removed or changed only by an
\* iteration of accept whose flow carried the session's CID as its token;
\* every other step, the handling of any other token included, leaves it
\* in the table as it was.
C25_PartialSessionPinned ==
    [][\A k \in DOMAIN accepted_connections :
          (k \notin DOMAIN accepted_connections'
             \/ accepted_connections'[k] # accepted_connections[k]) =>
                (lpc = "token" /\ lpc' = "accept" /\ TokenRead = k)]_vars

\* a client stopped after its first flow: its session of one member is
\* still in the table after the listener has handled every flow of another
\* client and returned that client's stream, and nothing is left to accept
C25_Witness ==
    /\ stream_num = 2
    /\ lpc = "accept" /\ acceptQ = <<>>
    /\ Len(bonded) = 1
    /\ \E c \in Clients :
          /\ cpc[c] = "open" /\ Len(streams[c]) = 1
          /\ c # Members(1)[1][1]
          /\ from_bytes_le(cid_buf[c]) \in DOMAIN accepted_connections
          /\ accepted_connections[from_bytes_le(cid_buf[c])] = << <<c, 1>> >>

\* C26: a flow whose token equals the CID of a waiting session is appended
\* to that session whoever opened it, the first flow of another client
\* included: it is sent nothing, and it is the member that completes the
\* session when the session held stream_num - 1 flows.
C26_MatchingTokenJoins ==
    [][(Handled /\ TokenRead \in DOMAIN accepted_connections) =>
          LET k    == TokenRead
              strs == accepted_connections[k]
          IN /\ s2c' = s2c
             /\ IF Len(strs) + 1 = stream_num
                THEN /\ Len(bonded') = Len(bonded) + 1
                     /\ bonded'[Len(bonded')].streams = Append(strs, cur)
                     /\ DOMAIN accepted_connections' = (DOMAIN accepted_connections) \ {k}
                ELSE /\ bonded' = bonded
                     /\ accepted_connections' =
                            MapInsert(accepted_connections, k, Append(strs, cur))]_vars

\* accept returned a stream whose last member is the first flow of a
\* client other than the one that opened the session; that client was sent
\* nothing, and the session's own client is left with a flow that opens a
\* session of its own
C26_Witness ==
    \E i \in 1..Len(bonded) :
        LET ms == Members(i)
            r  == ms[Len(ms)]
        IN /\ Len(ms) = stream_num /\ stream_num >= 2
           /\ r[2] = 1 /\ r[1] # ms[1][1]
           /\ cpc[r[1]] = "rogue"
           /\ s2c[r] = <<>>

====
